---- MODULE Spec2Model ----
(***************************************************************************)
(* The build driver of turtle-build (src/src/run.rs): run,                 *)
(* create_build_future, spawn_build_future, hash_build, join_builds,       *)
(* check_file_existence and run_rule, over a fixed configuration, a file   *)
(* system and a fingerprint database that both outlive a run.              *)
(*                                                                         *)
(* A behaviour is a sequence of runs of the driver.  Between two runs the  *)
(* environment may delete an output, touch a file or put a touched file's  *)
(* timestamp back.                                                         *)
(*                                                                         *)
(* Each action is one stretch of code between two suspension points; the  *)
(* requests of the locks of the task table and of the graph are such       *)
(* points, so registering an input takes the write lock, inserts, takes    *)
(* the read lock and looks the handle up in four steps.                    *)
(* A command that exits successfully writes its outputs and implicit       *)
(* outputs with the current time; one that fails writes nothing.           *)
(* Failures of the database, of the console streams and of spawning the    *)
(* shell are left out: each would end a task with Err before line 175.     *)
(***************************************************************************)
EXTENDS Integers, Sequences, FiniteSets, TLC

VARIABLES
    default_outputs,  \* configuration.default_outputs()
    fragment,         \* what the dynamic module file compiles to
    exists,           \* the files on disk
    mtime,            \* last-modified time of each file
    clock,            \* the system time
    db,               \* BuildDatabase: target id -> fingerprint
    build_futures,    \* keys of context.build_futures()
    future,           \* state of the shared future stored for each key
    pc,               \* position of each spawned task
    idx,              \* loop index of each task
    futures,          \* the local vector `futures` of each task
    dynamic_inputs,   \* the local `dynamic_inputs` of each task
    hash,             \* the local `hash` of each task
    status,           \* output.status.success() of each task's child
    permits,          \* permits left in context.job_semaphore()
    console,          \* holder of context.console()
    writer,           \* holder of the write lock of context.build_futures()
    readers,          \* holders of its read lock
    graph_lock,       \* holder of context.build_graph()
    build_graph,      \* targets whose fragment was inserted in the graph
    runPc,            \* position of run()
    runIdx,           \* loop index of run()
    runFutures,       \* the local `futures` of run()
    result,           \* what run() returned
    runNo,            \* number of the current run
    change,           \* what the environment did before the current run
    saved,            \* the timestamp a touch replaced
    cmdCount,         \* commands spawned per target in the current run
    dbSets,           \* database sets per target in the current run
    inserts,          \* handles inserted per key in the current run
    dbAtStart,        \* the database when the current run started
    history,          \* summaries of the finished runs
    orphans,          \* targets whose child outlived the run that spawned it
    polled            \* how far the first poll of join_builds of each task,
                      \* and of run, has come in its handles

vars == <<default_outputs, fragment, exists, mtime, clock, db, build_futures,
          future, pc, idx, futures, dynamic_inputs, hash, status, permits,
          console, writer, readers, graph_lock, build_graph, runPc, runIdx,
          runFutures, result, runNo, change, saved, cmdCount, dbSets,
          inserts, dbAtStart, history, orphans, polled>>

envVars == <<default_outputs, fragment>>
fsVars == <<exists, mtime, clock>>
runVars == <<runPc, runIdx, runFutures, result>>
histVars == <<runNo, change, saved, dbAtStart, history, orphans>>
lockVars == <<writer, readers, graph_lock>>

----------------------------------------------------------------------------
(* Bounds *)

MaxRuns == 2
MaxBuilds == 3
JobLimit == 1

----------------------------------------------------------------------------
(* The configuration (ir::Configuration, ir::Build, ir::Rule)              *)

Targets == {"A", "B", "C", "E", "P", "ALL"}

NoRule == 0

\* build.rule().map(Rule::command): the command, as a code; NoRule for None.
Rule(t) ==
    CASE t = "A" -> 1
      [] t = "B" -> 2
      [] t = "C" -> 3
      [] t = "E" -> 4
      [] t = "P" -> NoRule
      [] OTHER -> NoRule

\* build.inputs()
Inputs(t) ==
    CASE t = "A" -> <<"s">>
      [] t = "B" -> <<"a">>
      [] t = "C" -> <<"s">>
      [] t = "E" -> <<>>
      [] t = "P" -> <<>>
      [] OTHER -> <<"b">>

\* build.order_only_inputs()
OrderOnlyInputs(t) ==
    CASE t = "C" -> <<"a">>
      [] t = "ALL" -> <<"c">>
      [] OTHER -> <<>>

\* build.outputs()
Outputs(t) ==
    CASE t = "A" -> <<"a">>
      [] t = "B" -> <<"b">>
      [] t = "C" -> <<"c">>
      [] t = "E" -> <<"e">>
      [] t = "P" -> <<"p">>
      [] OTHER -> <<"all">>

\* build.implicit_outputs()
ImplicitOutputs(t) ==
    CASE t = "B" -> <<"b2">>
      [] OTHER -> <<>>

NoModule == "none"

\* build.dynamic_module()
DynamicModule(t) ==
    CASE t = "C" -> "c.dd"
      [] OTHER -> NoModule

\* configuration.outputs(): output name -> the build that produces it
ConfigurationOutputs ==
    [o \in {"a", "b", "c", "e", "p", "all"} |->
        CASE o = "a" -> "A"
          [] o = "b" -> "B"
          [] o = "c" -> "C"
          [] o = "e" -> "E"
          [] o = "p" -> "P"
          [] OTHER -> "ALL"]

SourceFiles == {"s", "c.dd"}
Files == SourceFiles \cup {"a", "b", "b2", "c", "e", "p", "all"}

\* The default outputs, what the dynamic module c.dd compiles to (output
\* name -> additional inputs) and the source files on disk, when all is
\* well.
GoodInput ==
    [default_outputs |-> <<"all">>,
     fragment |-> [o \in {"c"} |-> <<"e">>],
     exists |-> SourceFiles]

\* The inputs a sequence of runs is given: the good one, the good one with
\* one defect, and two default outputs over a missing source file.
Inputs0 ==
    { GoodInput,
      [GoodInput EXCEPT !.default_outputs = <<"all", "nosuch">>],
      [GoodInput EXCEPT !.fragment = [o \in {"z"} |-> <<"e">>]],
      [GoodInput EXCEPT !.fragment = [o \in {"c"} |-> <<"nosuch">>]],
      [GoodInput EXCEPT !.fragment = [o \in {"c"} |-> <<"p">>]],
      [GoodInput EXCEPT !.exists = SourceFiles \ {"s"}],
      [GoodInput EXCEPT !.exists = SourceFiles \ {"c.dd"}],
      [GoodInput EXCEPT !.default_outputs = <<"c", "e">>,
                        !.exists = SourceFiles \ {"s"}] }

\* The inputs of incremental builds: the good one, and the good one with
\* two default outputs, which do not depend on each other.
GoodInputs ==
    { GoodInput,
      [GoodInput EXCEPT !.default_outputs = <<"e", "p">>] }

Range(s) == {s[i] : i \in 1..Len(s)}


----------------------------------------------------------------------------
(* Task handles (BuildFuture = Shared<RawBuildFuture>)                     *)

\* InfrastructureError kinds a handle can resolve to.
Errors == {"io", "command_exit", "dynamic_dependency_not_found",
           "join_error", "default_output_not_found"}

\* A collected handle is named by a target id (the shared future stored in
\* the table) or by a path (the future of check_file_existence(path)).
\* check_file_existence: Ok iff metadata(path) succeeds.
check_file_existence(path) == IF path \in exists THEN "ok" ELSE "io"

HandleState(h) == IF h \in Targets THEN future[h] ELSE check_file_existence(h)

\* Faulty variant of ContainsKey: the check of line 86 always finds no entry.
ContainsKeyNever(id) == FALSE

\* create_build_future, line 86: builds.contains_key(build.id())
ContainsKey(id) == id \in build_futures

\* create_build_future: under the exclusive lock, insert a fresh (unpolled)
\* shared future for the id unless the table has the key.
create_build_future(id) ==
    /\ build_futures' = build_futures \cup {id}
    /\ future' = IF ContainsKey(id) THEN future
                 ELSE [future EXCEPT ![id] = "lazy"]
    /\ inserts' = IF ContainsKey(id) THEN inserts
                  ELSE [inserts EXCEPT ![id] = @ + 1]

\* The existence checks among hs that can be seen failed by the first poll
\* of join_builds(hs): metadata runs on the blocking pool, and the check of
\* a missing path is done, or not yet, when its handle is first polled.
\* Every set of the handles of missing paths is an outcome.
ReadyChecks(hs) ==
    SUBSET {i \in 1..Len(hs) :
               hs[i] \notin Targets /\ check_file_existence(hs[i]) = "io"}

\* The first poll of join_builds(hs) is not one step: try_join_all polls
\* the handles in order, and the poll of an unpolled shared future spawns
\* the task of its target (line 101), which runs on while try_join_all
\* polls the JoinHandle (line 179) and goes on to the next handle.  A step
\* of the first poll starts behind the handle at index i, the one that the
\* step before spawned (i = 0 at the start), and ends with the next spawn.

\* The handles behind index i that nothing has polled yet, and the first
\* of them (Len + 1 when there is none).
Unpolled(hs, i) ==
    {j \in (i + 1)..Len(hs) : hs[j] \in Targets /\ future[hs[j]] = "lazy"}
NextUnpolled(hs, i) ==
    IF Unpolled(hs, i) = {} THEN Len(hs) + 1
    ELSE CHOOSE j \in Unpolled(hs, i) : \A k \in Unpolled(hs, i) : j <= k

\* try_join_all stops at the first handle that is failed when polled: the
\* handle of a task that has failed, the task spawned at index i included,
\* or one of the existence checks `ready`.  The index of that handle among
\* the ones this step polls, or Len + 1.
FirstFailed(hs, i, ready) ==
    LET bad == {k \in 1..Len(hs) :
                   /\ i <= k
                   /\ k < NextUnpolled(hs, i)
                   /\ \/ hs[k] \in Targets /\ future[hs[k]] \in Errors
                      \/ k \in ready}
    IN IF bad = {} THEN Len(hs) + 1
       ELSE CHOOSE k \in bad : \A j \in bad : k <= j

\* The first poll of join_builds(hs) resolves to an error in this step,
\* that of the handle it stopped at.
FailsAtFirstPoll(hs, i, ready) == FirstFailed(hs, i, ready) <= Len(hs)
FirstError(hs, i, ready) == HandleState(hs[FirstFailed(hs, i, ready)])

\* The unpolled shared future that this step polls: polling it runs
\* spawn_build_future up to its spawn(...).
Polled(hs, i, ready) ==
    IF ~FailsAtFirstPoll(hs, i, ready) /\ NextUnpolled(hs, i) <= Len(hs)
    THEN {hs[NextUnpolled(hs, i)]}
    ELSE {}

\* The first poll goes on behind the handle this step spawned: there is
\* another unpolled handle behind it.  When there is none, what is left of
\* the first poll spawns nothing, and an error it meets is the one the
\* suspended join_builds resolves to.
PollGoesOn(hs, i, ready) ==
    /\ Polled(hs, i, ready) # {}
    /\ Unpolled(hs, NextUnpolled(hs, i)) # {}

\* Faulty variant of JoinSucceeds: join_all for try_join_all, the results
\* dropped.
JoinSucceedsWhenAllEnded(hs) ==
    \A i \in 1..Len(hs) : HandleState(hs[i]) \in {"ok"} \cup Errors

\* join_builds(hs) resolves to Ok when every handle resolved to Ok.
JoinSucceeds(hs) == \A i \in 1..Len(hs) : HandleState(hs[i]) = "ok"

\* join_builds(hs) resolves to the error of a handle that failed.
JoinFailures(hs) == {HandleState(hs[i]) : i \in 1..Len(hs)} \cap Errors

----------------------------------------------------------------------------
(* Fingerprints (hash_build) and the database                               *)

NoEntry == -1
TimeRadix == 64
CommandRadix == 8

\* Faulty variant of TimestampsOk: a missing file has a timestamp.
TimestampsOkAlways(paths) == TRUE

\* get_timestamp of every path, or failure when one is missing.
TimestampsOk(paths) == \A i \in 1..Len(paths) : paths[i] \in exists
Timestamps(paths) == [i \in 1..Len(paths) |-> mtime[paths[i]]]

RECURSIVE HashTimes(_)
\* Vec<SystemTime>::hash: the elements in order; the encoding is one-to-one
\* for timestamps below TimeRadix.
HashTimes(ts) ==
    IF ts = <<>> THEN 0
    ELSE (Head(ts) + 1) + TimeRadix * HashTimes(Tail(ts))

\* Faulty variant of HashedInputs: the order-only inputs are hashed too.
HashedInputsWithOrderOnly(t, dyn) == Inputs(t) \o OrderOnlyInputs(t) \o dyn

\* The paths hash_build reads the timestamps of: inputs, then dynamic inputs.
HashedInputs(t, dyn) == Inputs(t) \o dyn

\* Faulty variant of hash_build: the timestamps are not hashed.
hash_build_command_only(t, dyn) == Rule(t)

\* hash_build: the command (None for no rule), then the timestamps.  The
\* hasher is modelled as a one-to-one encoding of what it is fed (no
\* collisions); the values stay far below 2^64, so nothing wraps.
hash_build(t, dyn) ==
    Rule(t) + CommandRadix * HashTimes(Timestamps(HashedInputs(t, dyn)))

\* Faulty variant of OutputsExist: the existence checks always fail.
OutputsExistNever(t) == FALSE

\* Faulty variant of OutputsExist: the outputs are not checked.
OutputsExistAlways(t) == TRUE

\* Lines 161-168: every output and implicit output exists.
OutputsExist(t) ==
    \A o \in Range(Outputs(t) \o ImplicitOutputs(t)) :
        check_file_existence(o) = "ok"

\* Faulty variant of StoredEquals: no fingerprint ever matches.
StoredEqualsNever(t, h) == FALSE

\* Faulty variant of StoredEquals: the stored fingerprint is not compared.
StoredEqualsAlways(t, h) == TRUE

\* Line 159: the computed fingerprint equals the stored one.
StoredEquals(t, h) == h = db[t]

----------------------------------------------------------------------------
(* Initial state: the context of the first run                              *)

NoChange == [kind |-> "none", file |-> "none"]

FreshFutures == [t \in Targets |-> "none"]
FreshPc == [t \in Targets |-> "idle"]
FreshIdx == [t \in Targets |-> 1]
FreshSeqs == [t \in Targets |-> <<>>]
FreshHash == [t \in Targets |-> 0]
FreshStatus == [t \in Targets |-> FALSE]
FreshCount == [t \in Targets |-> 0]
FreshPolled == [p \in Targets \cup {"run"} |-> 0]

\* run(), lines 42-49: the fresh context of a run over the input, the disk
\* and the database being what they are.
Context(input) ==
    /\ default_outputs = input.default_outputs
    /\ fragment = input.fragment
    /\ build_futures = {}
    /\ future = FreshFutures
    /\ pc = FreshPc
    /\ idx = FreshIdx
    /\ futures = FreshSeqs
    /\ dynamic_inputs = FreshSeqs
    /\ hash = FreshHash
    /\ status = FreshStatus
    /\ permits = JobLimit
    /\ console = "free"
    /\ writer = "free"
    /\ readers = {}
    /\ graph_lock = "free"
    /\ build_graph = {}
    /\ runPc = "register"
    /\ runIdx = 1
    /\ runFutures = <<>>
    /\ result = "none"
    /\ runNo = 1
    /\ change = NoChange
    /\ saved = 0
    /\ cmdCount = FreshCount
    /\ dbSets = FreshCount
    /\ inserts = FreshCount
    /\ dbAtStart = db
    /\ history = <<>>
    /\ orphans = {}
    /\ polled = FreshPolled

\* The first run over the input: no output on disk, an empty database.
FirstRun(input) ==
    /\ exists = input.exists
    /\ mtime = [f \in Files |-> 0]
    /\ clock = 0
    /\ db = [t \in Targets |-> NoEntry]
    /\ Context(input)

\* The disk and the database that a successful run over the good input
\* leaves when its commands exit in the order A, B, E, C: the outputs of
\* the four rules with the times of these exits, and the fingerprints of
\* the five targets the run reached.
BuiltTimes ==
    [f \in Files |->
        CASE f = "a" -> 1
          [] f \in {"b", "b2"} -> 2
          [] f = "e" -> 3
          [] f = "c" -> 4
          [] OTHER -> 0]
BuiltTargets == {"A", "B", "E", "C", "ALL"}
BuiltFiles == SourceFiles \cup {"a", "b", "b2", "e", "c"}
BuiltDynamicInputs(t) == IF t = "C" THEN GoodInput.fragment["c"] ELSE <<>>

\* A run over the good input after such a run; on disk there may be a
\* file that has the name of the output of ALL, the target without a rule.
AfterBuild ==
    /\ exists \in {BuiltFiles, BuiltFiles \cup {"all"}}
    /\ mtime = BuiltTimes
    /\ clock = 4
    /\ db = [t \in Targets |->
                IF t \in BuiltTargets
                THEN hash_build(t, BuiltDynamicInputs(t))
                ELSE NoEntry]
    /\ Context(GoodInput)

Init == \E input \in Inputs0 : FirstRun(input)

InitGood == \E input \in GoodInputs : FirstRun(input)

\* A first run over any input, or a run after a build.
InitAny == Init \/ AfterBuild


----------------------------------------------------------------------------
(* The lock of the task table (tokio::sync::RwLock)                         *)

\* write().await resolves for `me` when nobody holds the lock.
WriteLock(me) ==
    /\ writer = "free"
    /\ readers = {}
    /\ writer' = me
    /\ UNCHANGED readers

\* Faulty variant of WriteUnlock: the write guard lives on.
WriteUnlockNever(me) == UNCHANGED <<writer, readers>>

\* The write guard is dropped.
WriteUnlock(me) ==
    /\ writer' = "free"
    /\ UNCHANGED readers

\* read().await resolves for `me` when nobody holds the write lock.
ReadLock(me) ==
    /\ writer = "free"
    /\ readers' = readers \cup {me}
    /\ UNCHANGED writer

\* Faulty variant of ReadUnlock: the read guard lives on.
ReadUnlockNever(me) == UNCHANGED <<readers, writer>>

\* The read guard is dropped.
ReadUnlock(me) ==
    /\ readers' = readers \ {me}
    /\ UNCHANGED writer

----------------------------------------------------------------------------
(* run(), lines 36-76                                                       *)

taskVars == <<pc, idx, futures, dynamic_inputs, hash, status>>

\* One step of the first poll of join_builds(hs) by `me` (a task, or
\* "run"), behind index i: the unpolled shared future it reaches is spawned
\* as a task (spawn_build_future, line 101).  When it stopped at a failed
\* handle, join_builds resolves to that error at once and `?` ends the
\* task with it; otherwise `me` goes on with the first poll at `poll`, or is
\* suspended at `wait`.
Poll(hs, i, me, poll, wait, ready) ==
    LET new == Polled(hs, i, ready)
        failed == FailsAtFirstPoll(hs, i, ready)
    IN /\ future' = [t \in Targets |->
                        IF t \in new THEN "running"
                        ELSE IF t = me /\ failed THEN FirstError(hs, i, ready)
                        ELSE future[t]]
       /\ pc' = [t \in Targets |->
                    IF t \in new THEN "inputs"
                    ELSE IF t = me
                         THEN (IF failed THEN "done"
                               ELSE IF PollGoesOn(hs, i, ready) THEN poll
                               ELSE wait)
                    ELSE pc[t]]
       /\ polled' = [polled EXCEPT
                        ![me] = IF PollGoesOn(hs, i, ready)
                                THEN NextUnpolled(hs, i) ELSE 0]
       /\ idx' = [t \in Targets |-> IF t \in new THEN 1 ELSE idx[t]]
       /\ futures' = [t \in Targets |-> IF t \in new THEN <<>> ELSE futures[t]]

\* Lines 51-61 and 84: one turn of the loop over default_outputs, up to the
\* write lock of create_build_future.
RunRegister ==
    /\ runPc = "register"
    /\ runIdx <= Len(default_outputs)
    /\ IF default_outputs[runIdx] \in DOMAIN ConfigurationOutputs
       THEN /\ WriteLock("run")
            /\ runPc' = "create"
            /\ UNCHANGED result
       ELSE /\ runPc' = "returned"
            /\ result' = "default_output_not_found"
            /\ UNCHANGED <<writer, readers>>
    /\ UNCHANGED <<envVars, fsVars, db, build_futures, future, taskVars,
                   permits, console, graph_lock, build_graph, runIdx,
                   runFutures, histVars, polled, cmdCount, dbSets, inserts>>

\* Lines 86-94, called from line 52: create_build_future under the write
\* lock, which is dropped on return.
RunCreate ==
    /\ runPc = "create"
    /\ create_build_future(ConfigurationOutputs[default_outputs[runIdx]])
    /\ WriteUnlock("run")
    /\ runIdx' = runIdx + 1
    /\ runPc' = "register"
    /\ UNCHANGED <<envVars, fsVars, db, taskVars, permits, console,
                   graph_lock, build_graph, runFutures, result, histVars, polled,
                   cmdCount, dbSets>>

\* The orders in which HashMap::values() can yield the handles of the
\* table: any, the hasher is seeded per table.
Values(ids) ==
    {order \in [1..Cardinality(ids) -> ids] :
        \A i, j \in DOMAIN order : order[i] = order[j] => i = j}

\* Faulty variant of Snapshot: the snapshot is taken of an empty table.
SnapshotNothing == {<<>>}

\* Lines 64-70: the handles of the table, cloned under the read lock, in
\* one of the orders of values().
Snapshot == Values(build_futures)

\* Faulty variant of RegisteredAll: the loop is left after its first turn.
RegisteredFirst == runIdx > 1

\* Line 51: the loop over default_outputs is exhausted.
RegisteredAll == runIdx > Len(default_outputs)

\* Lines 64-67: the read lock for the snapshot.
RunReadLock ==
    /\ runPc = "register"
    /\ RegisteredAll
    /\ ReadLock("run")
    /\ runPc' = "snapshot"
    /\ UNCHANGED <<envVars, fsVars, db, build_futures, future, taskVars,
                   permits, console, graph_lock, build_graph, runIdx,
                   runFutures, result, histVars, polled, cmdCount, dbSets, inserts>>

\* Line 73: a step of the first poll of join_builds(futures) by run.
RunPollStep(hs, i) ==
    \E ready \in ReadyChecks(hs) :
        /\ Poll(hs, i, "run", "poll", "join", ready)
        /\ IF FailsAtFirstPoll(hs, i, ready)
           THEN /\ runPc' = "returned"
                /\ result' = FirstError(hs, i, ready)
           ELSE /\ runPc' = IF PollGoesOn(hs, i, ready) THEN "poll" ELSE "join"
                /\ UNCHANGED result

\* Lines 68-73: snapshot of the table, the read guard is dropped at the end
\* of the statement, then the start of the first poll of
\* join_builds(futures).
RunSnapshot ==
    /\ runPc = "snapshot"
    /\ \E snapshot \in Snapshot :
        /\ runFutures' = snapshot
        /\ RunPollStep(snapshot, 0)
    /\ ReadUnlock("run")
    /\ UNCHANGED <<envVars, fsVars, db, build_futures, dynamic_inputs, hash,
                   status, permits, console, graph_lock, build_graph, runIdx,
                   histVars, cmdCount, dbSets, inserts>>

\* Line 73: the first poll of join_builds(futures) goes on behind the
\* handle it spawned.
RunPoll ==
    /\ runPc = "poll"
    /\ RunPollStep(runFutures, polled["run"])
    /\ UNCHANGED <<envVars, fsVars, db, build_futures, dynamic_inputs, hash,
                   status, permits, console, build_graph, runIdx, runFutures,
                   histVars, lockVars, cmdCount, dbSets, inserts>>

\* Lines 73-75: join_builds resolved to Ok.
RunReturnOk ==
    /\ runPc = "join"
    /\ JoinSucceeds(runFutures)
    /\ runPc' = "returned"
    /\ result' = "ok"
    /\ UNCHANGED <<envVars, fsVars, db, build_futures, future, taskVars,
                   permits, console, build_graph, runIdx, runFutures,
                   histVars, polled, lockVars, inserts, cmdCount, dbSets>>

\* Line 73: join_builds resolved to an error, which `?` returns.
RunReturnErr ==
    /\ runPc = "join"
    /\ \E e \in JoinFailures(runFutures) :
        result' = e
    /\ runPc' = "returned"
    /\ UNCHANGED <<envVars, fsVars, db, build_futures, future, taskVars,
                   permits, console, build_graph, runIdx, runFutures,
                   histVars, polled, lockVars, inserts, cmdCount, dbSets>>


----------------------------------------------------------------------------
(* The task of a target (the block spawned by spawn_build_future)           *)

\* The task ends with Err(e): its shared future resolves to e.
Fail(t, e) ==
    /\ future' = [future EXCEPT ![t] = e]
    /\ pc' = [pc EXCEPT ![t] = "done"]

\* The task ends with Ok(()).
Succeed(t) ==
    /\ future' = [future EXCEPT ![t] = "ok"]
    /\ pc' = [pc EXCEPT ![t] = "done"]

\* Line 104: build.inputs().iter().chain(build.order_only_inputs())
AllInputs(t) == Inputs(t) \o OrderOnlyInputs(t)

\* Lines 104-118 and 84: one turn of the loop over the inputs: up to the
\* write lock of create_build_future for the output of a target, the
\* future of an existence check for any other path.
RegisterInput(t) ==
    /\ pc[t] = "inputs"
    /\ idx[t] <= Len(AllInputs(t))
    /\ LET input == AllInputs(t)[idx[t]]
       IN IF input \in DOMAIN ConfigurationOutputs
          THEN /\ WriteLock(t)
               /\ pc' = [pc EXCEPT ![t] = "create"]
               /\ UNCHANGED <<futures, idx>>
          ELSE /\ futures' = [futures EXCEPT ![t] = Append(@, input)]
               /\ idx' = [idx EXCEPT ![t] = @ + 1]
               /\ UNCHANGED <<pc, writer, readers>>
    /\ UNCHANGED <<envVars, fsVars, db, build_futures, future,
                   dynamic_inputs, hash, status, permits, console,
                   graph_lock, build_graph, runVars, histVars, polled, cmdCount,
                   dbSets, inserts>>

\* The task is in the loop of lines 147-153; before that loop its
\* dynamic_inputs are still empty.
InDynamicLoop(t) == dynamic_inputs[t] # <<>>

\* The input the task is registering.
Registering(t) ==
    IF InDynamicLoop(t) THEN dynamic_inputs[t][idx[t]]
    ELSE AllInputs(t)[idx[t]]

\* Lines 86-94, called from lines 107 and 150: create_build_future under
\* the write lock, which is dropped on return.
CreateBuildFuture(t) ==
    /\ pc[t] = "create"
    /\ create_build_future(ConfigurationOutputs[Registering(t)])
    /\ WriteUnlock(t)
    /\ pc' = [pc EXCEPT ![t] = "lookup"]
    /\ UNCHANGED <<envVars, fsVars, db, idx, futures, dynamic_inputs, hash,
                   status, permits, console, graph_lock, build_graph,
                   runVars, histVars, polled, cmdCount, dbSets>>

\* Lines 109 and 152: the read lock for the lookup of the handle.
LookupLock(t) ==
    /\ pc[t] = "lookup"
    /\ ReadLock(t)
    /\ pc' = [pc EXCEPT ![t] = "read"]
    /\ UNCHANGED <<envVars, fsVars, db, build_futures, future, idx, futures,
                   dynamic_inputs, hash, status, permits, console,
                   graph_lock, build_graph, runVars, histVars, polled, cmdCount,
                   dbSets, inserts>>

\* Lines 105-117 and 152: the handle of the key is cloned and pushed; the
\* read guard is dropped at the end of the statement.
Lookup(t) ==
    /\ pc[t] = "read"
    /\ futures' = [futures EXCEPT
          ![t] = Append(@, ConfigurationOutputs[Registering(t)])]
    /\ idx' = [idx EXCEPT ![t] = @ + 1]
    /\ ReadUnlock(t)
    /\ pc' = [pc EXCEPT
          ![t] = IF InDynamicLoop(t) THEN "dynamic_inputs" ELSE "inputs"]
    /\ UNCHANGED <<envVars, fsVars, db, build_futures, future,
                   dynamic_inputs, hash, status, permits, console,
                   graph_lock, build_graph, runVars, histVars, polled, cmdCount,
                   dbSets, inserts>>

\* Lines 120 and 155: the start of the first poll of join_builds(futures).
JoinStart(t) ==
    /\ \E ready \in ReadyChecks(futures[t]) :
        \/ /\ pc[t] = "inputs"
           /\ idx[t] > Len(AllInputs(t))
           /\ Poll(futures[t], 0, t, "poll_inputs", "join_inputs", ready)
        \/ /\ pc[t] = "dynamic_inputs"
           /\ idx[t] > Len(dynamic_inputs[t])
           /\ Poll(futures[t], 0, t, "poll_dynamic", "join_dynamic", ready)
    /\ UNCHANGED <<envVars, fsVars, db, build_futures, dynamic_inputs, hash,
                   status, permits, console, build_graph, runVars, histVars,
                   lockVars, inserts, cmdCount, dbSets>>

\* Lines 120 and 155: the first poll of join_builds(futures) goes on behind
\* the handle it spawned.
JoinPoll(t) ==
    /\ \E ready \in ReadyChecks(futures[t]) :
        \/ /\ pc[t] = "poll_inputs"
           /\ Poll(futures[t], polled[t], t, "poll_inputs", "join_inputs",
                   ready)
        \/ /\ pc[t] = "poll_dynamic"
           /\ Poll(futures[t], polled[t], t, "poll_dynamic", "join_dynamic",
                   ready)
    /\ UNCHANGED <<envVars, fsVars, db, build_futures, dynamic_inputs, hash,
                   status, permits, console, build_graph, runVars, histVars,
                   lockVars, inserts, cmdCount, dbSets>>

\* Lines 120-132 and 155: join_builds resolved to Ok.  Without a dynamic
\* module dynamic_inputs is empty and the second join resolves at once.
JoinOk(t) ==
    /\ pc[t] \in {"join_inputs", "join_dynamic"}
    /\ JoinSucceeds(futures[t])
    /\ IF pc[t] = "join_inputs" /\ DynamicModule(t) # NoModule
       THEN /\ pc' = [pc EXCEPT ![t] = "dynamic"]
            /\ UNCHANGED dynamic_inputs
       ELSE /\ pc' = [pc EXCEPT ![t] = "hash"]
            /\ dynamic_inputs' =
                 IF pc[t] = "join_inputs"
                 THEN [dynamic_inputs EXCEPT ![t] = <<>>]
                 ELSE dynamic_inputs
    /\ UNCHANGED <<envVars, fsVars, db, build_futures, future, idx, futures,
                   hash, status, permits, console, build_graph, runVars,
                   histVars, polled, lockVars, inserts, cmdCount, dbSets>>

\* Lines 120 and 155: join_builds resolved to an error, which `?` returns.
JoinErr(t) ==
    /\ pc[t] \in {"join_inputs", "join_dynamic"}
    /\ \E e \in JoinFailures(futures[t]) : Fail(t, e)
    /\ UNCHANGED <<envVars, fsVars, db, build_futures, idx, futures,
                   dynamic_inputs, hash, status, permits, console,
                   build_graph, runVars, histVars, polled, lockVars, inserts, cmdCount, dbSets>>

\* Lines 135-140: the inputs the fragment gives for the first output of the
\* build that it lists; <<"none">> stands for None.
FindDynamicInputs(t) ==
    LET hits == {i \in 1..Len(Outputs(t)) : Outputs(t)[i] \in DOMAIN fragment}
    IN IF hits = {} THEN <<"none">>
       ELSE fragment[Outputs(t)[CHOOSE i \in hits : \A j \in hits : i <= j]]

FoundDynamicInputs(t) ==
    \E i \in 1..Len(Outputs(t)) : Outputs(t)[i] \in DOMAIN fragment

\* Lines 123-127: read and compile the dynamic module, request the lock of
\* the graph.
CompileDynamic(t) ==
    /\ pc[t] = "dynamic"
    /\ IF check_file_existence(DynamicModule(t)) # "ok"
       THEN Fail(t, "io")
       ELSE /\ pc' = [pc EXCEPT ![t] = "graph"]
            /\ UNCHANGED future
    /\ UNCHANGED <<envVars, fsVars, db, build_futures, idx, futures,
                   dynamic_inputs, hash, status, permits, console,
                   build_graph, runVars, histVars, polled, lockVars, cmdCount,
                   dbSets, inserts>>

\* Line 127: lock().await resolves when nobody holds the lock of the graph.
GraphLock(t) ==
    /\ pc[t] = "graph"
    /\ graph_lock = "free"
    /\ graph_lock' = t
    /\ pc' = [pc EXCEPT ![t] = "insert"]
    /\ UNCHANGED <<envVars, fsVars, db, build_futures, future, idx, futures,
                   dynamic_inputs, hash, status, permits, console, writer,
                   readers, build_graph, runVars, histVars, polled, cmdCount, dbSets,
                   inserts>>

\* Lines 127-145: insert the fragment in the graph, the guard is dropped at
\* the end of the statement; look the dynamic inputs up.
GraphInsert(t) ==
    /\ pc[t] = "insert"
    /\ graph_lock' = "free"
    /\ build_graph' = build_graph \cup {t}
    /\ IF FoundDynamicInputs(t)
       THEN /\ dynamic_inputs' =
                 [dynamic_inputs EXCEPT ![t] = FindDynamicInputs(t)]
            /\ futures' = [futures EXCEPT ![t] = <<>>]
            /\ idx' = [idx EXCEPT ![t] = 1]
            /\ pc' = [pc EXCEPT ![t] = "dynamic_inputs"]
            /\ UNCHANGED future
       ELSE /\ Fail(t, "dynamic_dependency_not_found")
            /\ UNCHANGED <<dynamic_inputs, futures, idx>>
    /\ UNCHANGED <<envVars, fsVars, db, build_futures, hash, status, permits,
                   console, writer, readers, runVars, histVars, polled, cmdCount,
                   dbSets, inserts>>

\* Lines 147-150 and 84: one turn of the loop over dynamic_inputs, up to
\* the write lock of create_build_future.  Indexing configuration.outputs()
\* with a name it lacks panics, and the JoinHandle of the task resolves to a
\* JoinError.
RegisterDynamicInput(t) ==
    /\ pc[t] = "dynamic_inputs"
    /\ idx[t] <= Len(dynamic_inputs[t])
    /\ IF dynamic_inputs[t][idx[t]] \in DOMAIN ConfigurationOutputs
       THEN /\ WriteLock(t)
            /\ pc' = [pc EXCEPT ![t] = "create"]
            /\ UNCHANGED future
       ELSE /\ Fail(t, "join_error")
            /\ UNCHANGED <<writer, readers>>
    /\ UNCHANGED <<envVars, fsVars, db, build_futures, idx, futures,
                   dynamic_inputs, hash, status, permits, console,
                   graph_lock, build_graph, runVars, histVars, polled, cmdCount,
                   dbSets, inserts>>


\* Faulty variant of HasRule: every target is taken to have a rule.
HasRuleAlways(t) == TRUE

\* Line 171: `if let Some(rule) = build.rule()`
HasRule(t) == Rule(t) # NoRule

\* Lines 171-173: the task is stale; with a rule it goes on to run_rule,
\* without one to the database write.
Stale(t) ==
    /\ pc' = [pc EXCEPT ![t] = IF HasRule(t) THEN "acquire" ELSE "set"]
    /\ UNCHANGED future

\* Lines 157-159: the timestamps of the inputs, the fingerprint and its
\* comparison with the stored one.  When they differ the existence checks
\* of line 160 are not made (`&&`); when they are equal the task suspends
\* on these checks.
HashBuild(t) ==
    /\ pc[t] = "hash"
    /\ IF ~TimestampsOk(HashedInputs(t, dynamic_inputs[t]))
       THEN /\ Fail(t, "io")
            /\ UNCHANGED hash
       ELSE LET h == hash_build(t, dynamic_inputs[t])
            IN /\ hash' = [hash EXCEPT ![t] = h]
               /\ IF StoredEquals(t, h)
                  THEN /\ pc' = [pc EXCEPT ![t] = "outputs"]
                       /\ UNCHANGED future
                  ELSE Stale(t)
    /\ UNCHANGED <<envVars, fsVars, db, build_futures, idx, futures,
                   dynamic_inputs, status, permits, console, build_graph,
                   runVars, histVars, polled, lockVars, inserts, cmdCount, dbSets>>

\* Lines 160-173: the existence checks of the outputs have resolved; the
\* task returns Ok when every output exists and is stale otherwise.
CheckOutputs(t) ==
    /\ pc[t] = "outputs"
    /\ IF OutputsExist(t) THEN Succeed(t) ELSE Stale(t)
    /\ UNCHANGED <<envVars, fsVars, db, build_futures, idx, futures,
                   dynamic_inputs, hash, status, permits, console,
                   build_graph, runVars, histVars, polled, lockVars, inserts,
                   cmdCount, dbSets>>

\* Faulty variant of PermitAvailable: acquire() never waits.
PermitAlways == TRUE

\* run_rule, line 232: acquire() resolves when a permit is available.
PermitAvailable == permits > 0

\* run_rule, lines 232-237: take a permit, spawn the shell command.
Acquire(t) ==
    /\ pc[t] = "acquire"
    /\ PermitAvailable
    /\ permits' = permits - 1
    /\ cmdCount' = [cmdCount EXCEPT ![t] = @ + 1]
    /\ pc' = [pc EXCEPT ![t] = "exec"]
    /\ UNCHANGED <<envVars, fsVars, db, build_futures, future, idx, futures,
                   dynamic_inputs, hash, status, console, build_graph,
                   runVars, histVars, polled, lockVars, inserts, dbSets>>

\* What a command that exits successfully leaves on disk: its outputs and
\* implicit outputs, written now.
Written(t) == Range(Outputs(t) \o ImplicitOutputs(t))

\* Faulty variant of PermitsAfterExit: the permit of a command that failed
\* is not given back.
PermitsAfterExitIfSuccess(success) ==
    IF success THEN permits + 1 ELSE permits

\* run_rule, line 239: drop(permit), whatever the exit status is.
PermitsAfterExit(success) == permits + 1

\* run_rule, lines 233-239: the child exits, with success or not; the
\* permit is dropped.
CommandExit(t) ==
    /\ pc[t] = "exec"
    /\ \E success \in BOOLEAN :
        /\ status' = [status EXCEPT ![t] = success]
        /\ IF success
           THEN /\ clock' = clock + 1
                /\ exists' = exists \cup Written(t)
                /\ mtime' = [f \in Files |->
                                IF f \in Written(t) THEN clock + 1 ELSE mtime[f]]
           ELSE UNCHANGED fsVars
        /\ permits' = PermitsAfterExit(success)
    /\ pc' = [pc EXCEPT ![t] = "console"]
    /\ UNCHANGED <<envVars, db, build_futures, future, idx, futures,
                   dynamic_inputs, hash, console, build_graph, runVars,
                   histVars, polled, lockVars, inserts, cmdCount, dbSets>>

\* run_rule, line 241: take the console lock.
ConsoleLock(t) ==
    /\ pc[t] = "console"
    /\ console = "free"
    /\ console' = t
    /\ pc' = [pc EXCEPT ![t] = "write"]
    /\ UNCHANGED <<envVars, fsVars, db, build_futures, future, idx, futures,
                   dynamic_inputs, hash, status, permits, build_graph,
                   runVars, histVars, polled, lockVars, inserts, cmdCount, dbSets>>

\* Faulty variant of CommandFailed: the exit status is not looked at.
CommandFailedNever(t) == FALSE

\* run_rule, line 254: !output.status.success()
CommandFailed(t) == ~status[t]

\* run_rule, lines 243-261: write the output, check the exit status; the
\* console lock is dropped on return.
ConsoleWrite(t) ==
    /\ pc[t] = "write"
    /\ console' = "free"
    /\ IF CommandFailed(t)
       THEN Fail(t, "command_exit")
       ELSE /\ pc' = [pc EXCEPT ![t] = "set"]
            /\ UNCHANGED future
    /\ UNCHANGED <<envVars, fsVars, db, build_futures, idx, futures,
                   dynamic_inputs, hash, status, permits, build_graph,
                   runVars, histVars, polled, lockVars, inserts, cmdCount, dbSets>>

\* Faulty variant of DatabaseSet: the task goes on without the write.
DatabaseSetDropped(t) ==
    /\ pc[t] = "set"
    /\ pc' = [pc EXCEPT ![t] = "return"]
    /\ UNCHANGED <<envVars, fsVars, db, build_futures, future, idx, futures,
                   dynamic_inputs, hash, status, permits, console,
                   build_graph, runVars, histVars, polled, lockVars, inserts, cmdCount, dbSets>>

\* Line 175: context.database().set(build.id(), hash)
DatabaseSet(t) ==
    /\ pc[t] = "set"
    /\ db' = [db EXCEPT ![t] = hash[t]]
    /\ dbSets' = [dbSets EXCEPT ![t] = @ + 1]
    /\ pc' = [pc EXCEPT ![t] = "return"]
    /\ UNCHANGED <<envVars, fsVars, build_futures, future, idx, futures,
                   dynamic_inputs, hash, status, permits, console,
                   build_graph, runVars, histVars, polled, lockVars, inserts, cmdCount>>

\* Line 177: Ok(()).
ReturnOk(t) ==
    /\ pc[t] = "return"
    /\ Succeed(t)
    /\ UNCHANGED <<envVars, fsVars, db, build_futures, idx, futures,
                   dynamic_inputs, hash, status, permits, console,
                   build_graph, runVars, histVars, polled, lockVars, inserts, cmdCount, dbSets>>

----------------------------------------------------------------------------
(* The environment between two runs, and the start of the next run          *)

Deletable == {"a", "b", "c", "e"}
Touchable == {"s", "a"}

Ran == {t \in Targets : cmdCount[t] > 0}

\* run(), lines 42-49, for the next run, in a new process: a fresh context
\* over the same configuration, file system and database.  The tasks of
\* the run that returned ended with its process; the children they spawned
\* (line 233, without kill_on_drop) did not, and run on.
StartRun(ch) ==
    /\ runNo' = runNo + 1
    /\ orphans' = orphans \cup {t \in Targets : pc[t] = "exec"}
    /\ change' = ch
    /\ history' = Append(history,
                         [result |-> result, ran |-> Ran, change |-> change])
    /\ dbAtStart' = db
    /\ build_futures' = {}
    /\ future' = FreshFutures
    /\ pc' = FreshPc
    /\ idx' = FreshIdx
    /\ futures' = FreshSeqs
    /\ dynamic_inputs' = FreshSeqs
    /\ hash' = FreshHash
    /\ status' = FreshStatus
    /\ permits' = JobLimit
    /\ console' = "free"
    /\ writer' = "free"
    /\ readers' = {}
    /\ graph_lock' = "free"
    /\ build_graph' = {}
    /\ runPc' = "register"
    /\ runIdx' = 1
    /\ runFutures' = <<>>
    /\ result' = "none"
    /\ cmdCount' = FreshCount
    /\ dbSets' = FreshCount
    /\ inserts' = FreshCount
    /\ polled' = FreshPolled
    /\ UNCHANGED <<envVars, db>>

\* run_rule, lines 233-237: a child that outlived its run exits, with
\* success or not; with success it has written the outputs of its target.
\* Nothing waits for it: no permit is given back, no fingerprint written.
OrphanExit(t) ==
    /\ t \in orphans
    /\ orphans' = orphans \ {t}
    /\ \E success \in BOOLEAN :
        IF success
        THEN /\ clock' = clock + 1
             /\ exists' = exists \cup Written(t)
             /\ mtime' = [f \in Files |->
                             IF f \in Written(t) THEN clock + 1 ELSE mtime[f]]
        ELSE UNCHANGED fsVars
    /\ UNCHANGED <<envVars, db, build_futures, future, runVars, lockVars,
                   pc, idx, futures, dynamic_inputs, hash, status, permits,
                   console, build_graph, runNo, change, saved, dbAtStart,
                   history, cmdCount, dbSets, inserts, polled>>

\* Nothing changed on disk.
Rerun ==
    /\ StartRun(NoChange)
    /\ UNCHANGED <<fsVars, saved>>

\* One output was deleted.
DeleteOutput ==
    \E f \in Deletable \cap exists :
        /\ StartRun([kind |-> "delete", file |-> f])
        /\ exists' = exists \ {f}
        /\ mtime' = [mtime EXCEPT ![f] = 0]
        /\ UNCHANGED <<clock, saved>>

\* One file was touched: its timestamp is now.
Touch ==
    \E f \in Touchable \cap exists :
        /\ StartRun([kind |-> "touch", file |-> f])
        /\ clock' = clock + 1
        /\ mtime' = [mtime EXCEPT ![f] = clock + 1]
        /\ saved' = mtime[f]
        /\ UNCHANGED exists

\* One source file was touched, as when it is edited.
TouchSource == Touch /\ change'.file \in SourceFiles

\* The file touched before the last run got its old timestamp back.
Revert ==
    /\ change.kind = "touch"
    /\ StartRun([kind |-> "revert", file |-> change.file])
    /\ mtime' = [mtime EXCEPT ![change.file] = saved]
    /\ UNCHANGED <<exists, clock, saved>>

----------------------------------------------------------------------------

\* One step of the driver.
RunStep ==
    \/ RunRegister
    \/ RunCreate
    \/ RunReadLock
    \/ RunSnapshot
    \/ RunPoll
    \/ RunReturnOk
    \/ RunReturnErr

\* One step of a task.  A spawned task is detached: it goes on when run()
\* has returned with the first failure.
TaskStep ==
    \E t \in Targets :
        \/ RegisterInput(t)
        \/ CreateBuildFuture(t)
        \/ LookupLock(t)
        \/ Lookup(t)
        \/ JoinStart(t)
        \/ JoinPoll(t)
        \/ JoinOk(t)
        \/ JoinErr(t)
        \/ CompileDynamic(t)
        \/ GraphLock(t)
        \/ GraphInsert(t)
        \/ RegisterDynamicInput(t)
        \/ HashBuild(t)
        \/ CheckOutputs(t)
        \/ Acquire(t)
        \/ CommandExit(t)
        \/ ConsoleLock(t)
        \/ ConsoleWrite(t)
        \/ DatabaseSet(t)
        \/ ReturnOk(t)

\* After a run, whatever it returned, the driver may be run again; after
\* a run that returned success, also with a source file edited.
MayRestart == runPc = "returned" /\ runNo < MaxRuns
MayEdit == MayRestart /\ result = "ok"

Next ==
    \/ RunStep
    \/ TaskStep
    \/ (MayRestart /\ Rerun)
    \/ (MayEdit /\ TouchSource)
    \/ \E t \in Targets : OrphanExit(t)

\* Runs of the driver over any input.
Spec == Init /\ [][Next]_vars

\* One run of the driver.
NextRun == RunStep \/ TaskStep

\* One run over any input or after a build, under a scheduler that lets
\* run and every task that can take a step take one, with commands that
\* exit.
SpecFair == InitAny /\ [][NextRun]_vars /\ WF_vars(NextRun)

\* After a run that returned success the driver may be run again.
MayRebuild == runPc = "returned" /\ result = "ok" /\ runNo < MaxBuilds

NextIncremental ==
    \/ RunStep
    \/ TaskStep
    \/ (MayRebuild /\ Rerun)
    \/ (MayRebuild /\ DeleteOutput)
    \/ (MayRebuild /\ Touch)
    \/ (MayRebuild /\ Revert)

\* Incremental builds: runs over a good input, each run after the first
\* following a run that returned success.
SpecIncremental == InitGood /\ [][NextIncremental]_vars


----------------------------------------------------------------------------
(* Properties                                                               *)

\* The dynamic inputs the fragment gives a target.
DynamicInputsOf(t) ==
    IF DynamicModule(t) # NoModule /\ FoundDynamicInputs(t)
    THEN FindDynamicInputs(t)
    ELSE <<>>

\* The edges into a target: explicit, order-only and dynamic inputs.
EdgesInto(t) == Range(Inputs(t) \o OrderOnlyInputs(t) \o DynamicInputsOf(t))

\* The handle of an input resolved to success: the task of its producer, or
\* the existence check of a source file.
InputSucceeded(n) ==
    IF n \in DOMAIN ConfigurationOutputs
    THEN future[ConfigurationOutputs[n]] = "ok"
    ELSE n \in exists

\* The handle of an input resolved to failure.
InputFailed(n) ==
    IF n \in DOMAIN ConfigurationOutputs
    THEN future[ConfigurationOutputs[n]] \in Errors
    ELSE n \notin exists

\* The targets whose command is executing: spawned and not yet exited.
Executing == {t \in Targets : pc[t] = "exec"}

\* The command of the target was spawned in this run and exited with
\* success, or without.
CommandSucceeded(t) == cmdCount[t] > 0 /\ pc[t] # "exec" /\ status[t]
CommandExitedUnsuccessfully(t) ==
    cmdCount[t] > 0 /\ pc[t] # "exec" /\ ~status[t]

\* C1: in a run, the shell command of a target is invoked at most once,
\* however many dependents register and await the target.
CommandAtMostOnce == \A t \in Targets : cmdCount[t] <= 1

\* Witness of C1: the command of A was invoked while its explicit dependent
\* B and its order-only dependent C both hold the handle of A.
CommandOnceWitness ==
    /\ cmdCount["A"] = 1
    /\ "A" \in Range(futures["B"])
    /\ "A" \in Range(futures["C"])

\* C2: when the command of a target was spawned, the handle of every
\* explicit, order-only and dynamic input of it had resolved to success;
\* with an input handle that resolved to failure (a failed producer, a
\* missing source file) the command is not spawned.
CommandAfterInputs ==
    \A t \in Targets : \A n \in EdgesInto(t) :
        /\ cmdCount[t] > 0 => InputSucceeded(n)
        /\ InputFailed(n) => cmdCount[t] = 0

\* Witness of C2: the command of C is executing; C has a source file as
\* explicit input, a as order-only input and e as dynamic input.
CommandAfterInputsWitness ==
    /\ pc["C"] = "exec"
    /\ future["A"] = "ok"
    /\ future["E"] = "ok"
    /\ EdgesInto("C") = {"s", "a", "e"}

\* C3: at most JobLimit shell commands are executing.
AtMostJobLimitCommands == Cardinality(Executing) <= JobLimit

\* Witness of C3: JobLimit commands are executing and one more target is
\* waiting for a permit.
JobLimitWitness ==
    /\ Cardinality(Executing) = JobLimit
    /\ \E t \in Targets : pc[t] = "acquire"

\* C4 as stated: a database set for a target occurs only after the command
\* of that target exited successfully in the run.
DatabaseSetOnlyAfterCommandSuccess ==
    \A t \in Targets : dbSets[t] > 0 => CommandSucceeded(t)

\* C4 as amended: a database set for a target with a rule occurs only after
\* its command exited successfully in the run; a target without a rule has
\* no command, and its fingerprint is set once all its input handles have
\* succeeded.
DatabaseSetAfterSuccessOrWithoutRule ==
    \A t \in Targets :
        dbSets[t] > 0 =>
            IF Rule(t) # NoRule
            THEN CommandSucceeded(t)
            ELSE cmdCount[t] = 0 /\ \A n \in EdgesInto(t) : InputSucceeded(n)

\* Witness of C4: the fingerprints of B (with a rule) and of ALL (without)
\* were set in the run.
DatabaseSetWitness == dbSets["B"] > 0 /\ dbSets["ALL"] > 0

\* A hashed input of the target is missing: fingerprinting fails.
FingerprintFails(t) ==
    \E n \in Range(Inputs(t) \o DynamicInputsOf(t)) : n \notin exists

\* C5: a target whose task ends failed (an input handle failed, a source
\* file is missing, the dynamic module failed, fingerprinting failed, the
\* command exited unsuccessfully) had no database write in the run: its
\* entry is what it was when the run started.
NoDatabaseWriteOnFailure ==
    \A t \in Targets :
        (\/ future[t] \in Errors
         \/ \E n \in EdgesInto(t) : InputFailed(n)
         \/ FingerprintFails(t)
         \/ CommandExitedUnsuccessfully(t))
        => dbSets[t] = 0 /\ db[t] = dbAtStart[t]

\* Witness of C5: the command of A failed in a run that started with a
\* fingerprint of A in the database.
NoWriteOnFailureWitness ==
    /\ future["A"] = "command_exit"
    /\ dbAtStart["A"] # NoEntry
    /\ db["A"] = dbAtStart["A"]

\* C6: run returns success only if every handle of the task table is
\* succeeded then; if the task of a registered target ended failed, run
\* does not return success.
ErrorsNotSwallowed ==
    runPc = "returned" =>
        /\ result = "ok" => \A t \in build_futures : future[t] = "ok"
        /\ (\E t \in build_futures : future[t] \in Errors) => result \in Errors

\* Witness of C6: the command of E, a dynamic input of C, failed and run
\* returned that failure.
ErrorsNotSwallowedWitness ==
    /\ runPc = "returned"
    /\ future["E"] = "command_exit"
    /\ result = "command_exit"


----------------------------------------------------------------------------
(* Properties of incremental builds                                         *)

\* The run before the current one.
LastRun == history[Len(history)]

\* The producers of the explicit and dynamic inputs of a target.
FingerprintProducers(t) ==
    {ConfigurationOutputs[n] :
        n \in Range(Inputs(t) \o DynamicInputsOf(t))
              \cap DOMAIN ConfigurationOutputs}

RECURSIVE Downstream(_, _)
\* The targets of `from`, and the targets with a rule that reach one of
\* them through at most k explicit or dynamic input edges between targets
\* with a rule.
Downstream(from, k) ==
    LET more == from \cup {t \in Targets \ from :
                              /\ Rule(t) # NoRule
                              /\ FingerprintProducers(t) \cap from # {}}
    IN IF k = 0 \/ more = from THEN from
       ELSE Downstream(more, k - 1)

\* The targets with a rule that have the file as explicit or dynamic input.
Dependents(f) ==
    {t \in Targets :
        Rule(t) # NoRule /\ f \in Range(Inputs(t) \o DynamicInputsOf(t))}

\* The targets a deleted output makes stale: its producer and what is
\* downstream of it through explicit and dynamic inputs.
StaleAfterDelete(f) ==
    Downstream({ConfigurationOutputs[f]}, Cardinality(Targets))

\* The targets a new timestamp of a file makes stale.
StaleAfterTouch(f) == Downstream(Dependents(f), Cardinality(Targets))

\* C7: a run that follows a successful run, with nothing changed on disk,
\* spawns no command and returns success.
RerunRunsNothing ==
    (runNo > 1 /\ change.kind = "none" /\ LastRun.result = "ok") =>
        /\ Ran = {}
        /\ runPc = "returned" => result = "ok"

\* Witness of C7: the first run ran the four commands; the second run, with
\* nothing changed, has returned.
RerunWitness ==
    /\ runNo = 2
    /\ change.kind = "none"
    /\ LastRun.ran = {"A", "B", "C", "E"}
    /\ runPc = "returned"
    /\ result = "ok"
    /\ build_futures = {"A", "B", "C", "E", "ALL"}

\* C8 as stated: after a successful run and the deletion of one output, the
\* only commands that run are those of targets an output of which vanished.
DeleteRerunsOnlyVanished ==
    (runNo > 1 /\ change.kind = "delete" /\ LastRun.result = "ok") =>
        \A t \in Ran : change.file \in Written(t)

\* C8 as amended: after a successful run and the deletion of one output,
\* the commands that run are that of the producer of the output and those
\* of the targets downstream of it through explicit or dynamic inputs,
\* whose fingerprints change with the timestamp of the rebuilt input; no
\* other command runs, and a run that returns success ran all of these
\* that it builds for its default outputs.
DeleteRerunsDownstream ==
    (runNo > 1 /\ change.kind = "delete" /\ LastRun.result = "ok") =>
        /\ Ran \subseteq StaleAfterDelete(change.file)
        /\ (runPc = "returned" /\ result = "ok") =>
                Ran = StaleAfterDelete(change.file) \cap build_futures

\* Witness of C8: output a was deleted; the run returned success and ran
\* the commands of A and of B, whose output b was not deleted, and not that
\* of C, which has a as order-only input.
DeleteWitness ==
    /\ runNo > 1
    /\ change = [kind |-> "delete", file |-> "a"]
    /\ runPc = "returned"
    /\ result = "ok"
    /\ Ran = {"A", "B"}
    /\ "b" \notin Written("A")

\* Successful run, touch of a file, successful run, the old timestamp put
\* back: the current run is the one after that.
TouchedAndReverted ==
    /\ Len(history) >= 2
    /\ change.kind = "revert"
    /\ LastRun.change = [kind |-> "touch", file |-> change.file]
    /\ LastRun.result = "ok"
    /\ history[Len(history) - 1].result = "ok"

\* C9 as stated: the run after the revert executes no command.
RevertRunsNothing == TouchedAndReverted => Ran = {}

\* The dependents of the file that the run builds for its default outputs.
BuiltDependents(f) == Dependents(f) \cap build_futures

\* C9 as amended: the run after the touch executed the commands of the
\* dependents of the file that it builds, and the run after the revert,
\* when it returns success, has executed them again: the database holds the
\* fingerprints of the touched timestamp, not of the old one.
RevertRerunsDependents ==
    (TouchedAndReverted /\ runPc = "returned" /\ result = "ok") =>
        /\ BuiltDependents(change.file) \subseteq LastRun.ran
        /\ BuiltDependents(change.file) \subseteq Ran

\* Witness of C9: source s was touched and put back; the run after that ran
\* the command of A, which has s as explicit input.
RevertWitness ==
    /\ TouchedAndReverted
    /\ change.file = "s"
    /\ "A" \in BuiltDependents("s")
    /\ "A" \in LastRun.ran
    /\ mtime["s"] = 0
    /\ runPc = "returned"
    /\ result = "ok"
    /\ "A" \in Ran

\* The task of the target is past the join of its inputs and order-only
\* inputs.
PastInputs(t) ==
    \/ pc[t] \in {"dynamic", "graph", "insert", "dynamic_inputs",
                  "poll_dynamic", "join_dynamic", "hash", "outputs",
                  "acquire", "exec", "console", "write", "set", "return"}
    \/ pc[t] \in {"create", "lookup", "read"} /\ InDynamicLoop(t)
    \/ future[t] = "ok"

\* C10: after a successful run and a touch of a file that is an order-only
\* input of a target, and neither an explicit or dynamic input of it nor
\* upstream of one, the command of the target does not run; the task of the
\* target still awaits the handle of the order-only input before it decides.
OrderOnlyTouchNoRerun ==
    \A t \in Targets :
        (/\ runNo > 1
         /\ LastRun.result = "ok"
         /\ change.kind = "touch"
         /\ change.file \in Range(OrderOnlyInputs(t))
         /\ t \notin StaleAfterTouch(change.file))
        => /\ cmdCount[t] = 0
           /\ PastInputs(t) => InputSucceeded(change.file)

\* Witness of C10: a, an order-only input of C and an explicit input of B,
\* was touched; B ran again and C succeeded without its command.
OrderOnlyTouchWitness ==
    /\ runNo > 1
    /\ change = [kind |-> "touch", file |-> "a"]
    /\ "a" \in Range(OrderOnlyInputs("C"))
    /\ Rule("C") # NoRule
    /\ future["C"] = "ok"
    /\ cmdCount["C"] = 0
    /\ "B" \in Ran

----------------------------------------------------------------------------
(* Properties of the database after a run                                   *)

\* run has returned and no task is in flight.
RunEnded == runPc = "returned" /\ \A t \in Targets : pc[t] \in {"idle", "done"}

\* The fingerprint of the target can be computed from its inputs now, and
\* the database entry of the target equals it.
FingerprintMatches(t) ==
    /\ TimestampsOk(HashedInputs(t, DynamicInputsOf(t)))
    /\ db[t] = hash_build(t, DynamicInputsOf(t))

\* C11 as stated: after a run, a target whose database entry equals the
\* fingerprint of its inputs had its command skipped or exited successfully
\* in that run.
MatchMeansSkippedOrSucceeded ==
    \A t \in Targets :
        (RunEnded /\ FingerprintMatches(t)) =>
            cmdCount[t] = 0 \/ CommandSucceeded(t)

\* C11 as amended: after a run, a target whose database entry equals the
\* fingerprint of its inputs had its command skipped or exited successfully
\* in that run, or the entry is the one an earlier run left: an output of
\* the target was deleted, the command ran for that reason and did not exit
\* successfully, and the run wrote no fingerprint for the target.
MatchMeansSkippedSucceededOrLeft ==
    \A t \in Targets :
        (RunEnded /\ FingerprintMatches(t)) =>
            \/ cmdCount[t] = 0
            \/ CommandSucceeded(t)
            \/ /\ CommandExitedUnsuccessfully(t)
               /\ change.kind = "delete"
               /\ change.file \in Written(t)
               /\ dbSets[t] = 0
               /\ db[t] = dbAtStart[t]

\* Witness of C11: b was deleted after a successful run; in the next run the
\* command of B exited unsuccessfully, and the entry of B still equals the
\* fingerprint of its inputs.
MatchLeftWitness ==
    /\ RunEnded
    /\ change = [kind |-> "delete", file |-> "b"]
    /\ future["B"] = "command_exit"
    /\ FingerprintMatches("B")

----------------------------------------------------------------------------
(* Targets without a rule                                                   *)

\* The task of the target holds a permit or waits for one, or is in the
\* rest of run_rule.
InRunRule(t) == pc[t] \in {"acquire", "exec", "console", "write"}

\* What the staleness decision of a target without a rule was or will be
\* in this run: no command writes its outputs, and nothing but its own task
\* writes its entry.
WasUpToDate(t) == dbAtStart[t] = hash[t] /\ OutputsExist(t)

\* C12: a target without a rule never spawns a command and never acquires a
\* permit, in any run and whatever it decides; when it is not up to date
\* its task writes its fingerprint and succeeds, and when it is up to date
\* its task succeeds without a write.
NoRuleNoCommand ==
    \A t \in Targets :
        Rule(t) = NoRule =>
            /\ cmdCount[t] = 0
            /\ ~InRunRule(t)
            /\ pc[t] \in {"set", "return"} =>
                    ~WasUpToDate(t) /\ future[t] = "running"
            /\ future[t] = "ok" =>
                    IF WasUpToDate(t)
                    THEN dbSets[t] = 0 /\ db[t] = hash[t]
                    ELSE dbSets[t] = 1 /\ db[t] = hash[t]

\* Witness of C12: an earlier run wrote the fingerprint of ALL, which has
\* no rule, and a file with the name of its output is on disk; in this run
\* ALL is up to date and has succeeded without a write and without a
\* command.
NoRuleWitness ==
    /\ Rule("ALL") = NoRule
    /\ dbAtStart["ALL"] # NoEntry
    /\ future["ALL"] = "ok"
    /\ WasUpToDate("ALL")
    /\ dbSets["ALL"] = 0
    /\ cmdCount["ALL"] = 0

----------------------------------------------------------------------------
(* Dynamic inputs without a producer                                        *)

\* The fragment of the target lists an input that no target of the
\* configuration produces, and the task of the target has ended after it
\* looked its dynamic inputs up.
EndedOnUnknownDynamicInput(t) ==
    /\ \E n \in Range(DynamicInputsOf(t)) : n \notin DOMAIN ConfigurationOutputs
    /\ dynamic_inputs[t] = DynamicInputsOf(t)
    /\ pc[t] = "done"

\* C13: when the fragment of a target lists an input without a producing
\* target, the task of the target ends failed with the error 'dynamic
\* dependency not found', its command is not run and its fingerprint is not
\* written.
UnknownDynamicInputIsNotFound ==
    \A t \in Targets :
        EndedOnUnknownDynamicInput(t) =>
            /\ future[t] = "dynamic_dependency_not_found"
            /\ cmdCount[t] = 0
            /\ dbSets[t] = 0

\* Witness of C13: the fragment of C lists nosuch, which has no producer;
\* the task of C panicked at line 148 and its handle resolved to the join
\* error.
UnknownDynamicInputWitness ==
    /\ EndedOnUnknownDynamicInput("C")
    /\ future["C"] = "join_error"
    /\ cmdCount["C"] = 0
    /\ dbSets["C"] = 0

----------------------------------------------------------------------------
(* The task table                                                           *)

\* The targets the collected handles of a task, or of run, belong to.
HandlesOf(hs) == Range(hs) \cap Targets

\* The table holds a handle for exactly the keys a handle was inserted
\* for, one insert each, and every collected handle of a target is that
\* one.
OneHandlePerTarget ==
    /\ \A id \in Targets : inserts[id] = IF id \in build_futures THEN 1 ELSE 0
    /\ \A t \in Targets : \A id \in HandlesOf(futures[t]) : inserts[id] = 1
    /\ \A id \in HandlesOf(runFutures) : inserts[id] = 1

\* Within a run no key leaves the table and no further handle is inserted
\* for a key of the table.
HandleKept ==
    runNo' = runNo =>
        \A id \in build_futures :
            id \in build_futures' /\ inserts'[id] = inserts[id]

\* C14: the task table holds at most one handle per target id, an inserted
\* handle is never replaced or removed for the rest of the run, and of two
\* dependents that register the same target one creates the handle and both
\* read that handle.
AtMostOneHandle == []OneHandlePerTarget /\ [][HandleKept]_vars

\* Witness of C14: B and C, which both have a as input, have registered A
\* and both collected the one handle inserted for A.
OneHandleWitness ==
    /\ "A" \in HandlesOf(futures["B"])
    /\ "A" \in HandlesOf(futures["C"])
    /\ pc["B"] = "inputs"
    /\ pc["C"] = "inputs"
    /\ inserts["A"] = 1

----------------------------------------------------------------------------
(* The staleness decision                                                   *)

\* The steps in which the task of the target leaves lines 157-159, the
\* comparison of the fingerprints, and lines 160-173, the existence checks.
Compares(t) == pc[t] = "hash" /\ pc'[t] # "hash" /\ runNo' = runNo
Checks(t) == pc[t] = "outputs" /\ pc'[t] # "outputs" /\ runNo' = runNo

\* hash_build succeeds for the target, and the stored fingerprint is what
\* it returns.
FingerprintComputed(t) == TimestampsOk(HashedInputs(t, dynamic_inputs[t]))
StoredMatches(t) == db[t] = hash_build(t, dynamic_inputs[t])

\* The task returns success in this step, and the step takes no permit,
\* spawns no command and writes nothing to the database.
SkipStep(t) ==
    /\ pc'[t] = "done"
    /\ future'[t] = "ok"
    /\ permits' = permits
    /\ cmdCount' = cmdCount
    /\ db' = db
    /\ dbSets' = dbSets

\* Every output and implicit output of the target is on disk.
EveryOutputExists(t) ==
    \A o \in Range(Outputs(t) \o ImplicitOutputs(t)) : o \in exists

\* The decision of a task that computed its fingerprint: with a stored
\* fingerprint that differs it does not skip and, with a rule, goes to its
\* command; with an equal one it looks at its outputs, and skips exactly
\* when all of them exist.
DecisionStep ==
    \A t \in Targets :
        /\ (Compares(t) /\ FingerprintComputed(t)) =>
                /\ ~SkipStep(t)
                /\ StoredMatches(t) <=> pc'[t] = "outputs"
                /\ (Rule(t) # NoRule /\ ~StoredMatches(t))
                        => pc'[t] = "acquire"
        /\ Checks(t) =>
                /\ FingerprintComputed(t) /\ StoredMatches(t)
                /\ hash[t] = db[t]
                /\ SkipStep(t) <=> EveryOutputExists(t)
                /\ (Rule(t) # NoRule /\ ~EveryOutputExists(t))
                        => pc'[t] = "acquire"

\* A target with a rule that succeeded either ran its command once and wrote
\* its fingerprint, or took the skip and did neither; a task that waits for
\* a permit has not succeeded yet.
SkippedOrRan ==
    \A t \in Targets :
        Rule(t) # NoRule =>
            /\ future[t] = "ok" =>
                    \/ cmdCount[t] = 1 /\ dbSets[t] = 1
                    \/ cmdCount[t] = 0 /\ dbSets[t] = 0
            /\ pc[t] = "acquire" => future[t] = "running"

\* C15: a task returns success without a permit, without its command and
\* without a database write if and only if the stored fingerprint equals
\* the one it computed and every output and implicit output exists; in
\* every other case a target with a rule goes on to run its command.
SkipIffUpToDate == [][DecisionStep]_vars /\ []SkippedOrRan

\* Witness of C15: b was deleted after a successful run.  A took the skip;
\* the stored fingerprint of B equals the one computed, but its output is
\* missing, and its command has run.
SkipWitness ==
    /\ runNo > 1
    /\ change = [kind |-> "delete", file |-> "b"]
    /\ future["A"] = "ok"
    /\ cmdCount["A"] = 0
    /\ dbAtStart["B"] = hash["B"]
    /\ cmdCount["B"] = 1
    /\ future["B"] = "ok"

----------------------------------------------------------------------------
(* Success of a handle and the database                                     *)

\* The awaiters that can observe the handle of the target: the tasks that
\* collected it and are in join_builds, and run when it holds the handle.
Awaiters(id) ==
    {t \in Targets : id \in HandlesOf(futures[t])
                     /\ pc[t] \in {"poll_inputs", "join_inputs",
                                    "poll_dynamic", "join_dynamic"}}
    \cup (IF id \in HandlesOf(runFutures) /\ runPc \in {"poll", "join"}
          THEN {"run"} ELSE {})

\* C16: whenever the handle of a target is in the succeeded state, where
\* any awaiter can observe it, the database entry of the target equals the
\* fingerprint its task computed in this run.
SetBeforeSuccess ==
    \A t \in Targets : future[t] = "ok" => db[t] = hash[t]

\* Witness of C16: ALL waits for the handle of C, which has succeeded after
\* its task wrote the fingerprint it computed.
SetBeforeSuccessWitness ==
    /\ Awaiters("C") = {"ALL"}
    /\ future["C"] = "ok"
    /\ dbSets["C"] = 1
    /\ db["C"] = hash["C"]
    /\ dbAtStart["C"] # hash["C"]

----------------------------------------------------------------------------
(* Job permits                                                              *)

\* No task is in flight.
AllTerminated == \A t \in Targets : pc[t] \in {"idle", "done"}

\* C17: the permits taken are those of the tasks between acquire and the
\* exit of their child: a task that awaits handles, compiles a dynamic
\* module, computes a fingerprint, writes the database or holds the console
\* lock holds none; the permit is given back when the command fails too, so
\* when all tasks have terminated every permit is available.
PermitOnlyWhileExecuting ==
    /\ permits + Cardinality(Executing) = JobLimit
    /\ console \in Targets => pc[console] = "write"
    /\ AllTerminated => permits = JobLimit

\* Witness of C17: all tasks have terminated; the command of A succeeded,
\* that of B exited unsuccessfully, and every permit is available.
PermitWitness ==
    /\ AllTerminated
    /\ CommandSucceeded("A")
    /\ future["B"] = "command_exit"
    /\ permits = JobLimit

----------------------------------------------------------------------------
(* Locks                                                                    *)

\* The tasks and the top-level run.
Processes == Targets \cup {"run"}

HoldsTable(p) == writer = p \/ p \in readers
HoldsGraph(p) == graph_lock = p
HoldsConsole(p) == console = p

\* The locks a process holds.
LocksHeld(p) ==
    (IF HoldsTable(p) THEN {"task-table"} ELSE {})
    \cup (IF HoldsGraph(p) THEN {"graph-registry"} ELSE {})
    \cup (IF HoldsConsole(p) THEN {"console"} ELSE {})

\* The process is in join_builds, polling or awaiting handles of other
\* tasks.
AwaitingHandles(p) ==
    IF p = "run" THEN runPc \in {"poll", "join"}
    ELSE pc[p] \in {"poll_inputs", "join_inputs",
                    "poll_dynamic", "join_dynamic"}

\* C18: no task, and not run, holds the lock of the task table, shared or
\* exclusive, while it awaits the handle of another task; and no process
\* holds two of the locks of the task table, the graph and the console.
NoLockAcrossAwait ==
    \A p \in Processes :
        /\ AwaitingHandles(p) => ~HoldsTable(p)
        /\ Cardinality(LocksHeld(p)) <= 1

\* Witness of C18: ALL awaits the handles of its inputs and holds no lock,
\* while C holds the write lock of the table and B waits for the read lock.
NoLockAcrossAwaitWitness ==
    /\ AwaitingHandles("ALL")
    /\ LocksHeld("ALL") = {}
    /\ writer = "C"
    /\ pc["B"] = "lookup"

----------------------------------------------------------------------------
(* Termination                                                              *)

\* C19: with an acyclic graph, a job limit of at least one, commands that
\* exit and fair scheduling, run eventually returns.
RunReturns == <>(runPc = "returned")

\* Witness of C19: run returned success after the commands of the diamond
\* A, B, C (B and C both wait for A) and of E ran, with fewer permits than
\* targets.
RunReturnsWitness ==
    /\ runPc = "returned"
    /\ result = "ok"
    /\ Ran = {"A", "B", "C", "E"}
    /\ JobLimit >= 1
    /\ JobLimit < Cardinality(Ran)
    /\ AllTerminated

----------------------------------------------------------------------------
(* Default outputs without a target                                         *)

\* A name of default_outputs has no target in the configuration.
UnknownDefaultOutput ==
    \E i \in 1..Len(default_outputs) :
        default_outputs[i] \notin DOMAIN ConfigurationOutputs

\* C20: when a name of default_outputs has no target, run returns 'default
\* output not found' and no task body starts: no command is run and no
\* database entry is written, also for the default outputs registered
\* before it, whose handles are never polled.
UnknownDefaultStartsNothing ==
    UnknownDefaultOutput =>
        /\ \A t \in Targets :
              /\ pc[t] = "idle"
              /\ future[t] \in {"none", "lazy"}
              /\ cmdCount[t] = 0
              /\ dbSets[t] = 0
        /\ db = dbAtStart
        /\ runPc = "returned" => result = "default_output_not_found"

\* Witness of C20: default_outputs is all, nosuch; run registered ALL and
\* then returned 'default output not found', the handle of ALL unpolled.
UnknownDefaultWitness ==
    /\ default_outputs = <<"all", "nosuch">>
    /\ runPc = "returned"
    /\ result = "default_output_not_found"
    /\ build_futures = {"ALL"}
    /\ future["ALL"] = "lazy"

====
